---- MODULE Spec2Model ----
(***************************************************************************)
(* A model of the hex dump library (src/src/lib.rs): buf_to_array, which   *)
(* partitions a byte source into a Page of Lines, the per-byte formatting  *)
(* helpers, and the two renderers of run (array literal and dump view).    *)
(*                                                                         *)
(* Text is modelled as sequences of code points (48 is '0', 120 is 'x').   *)
(* The buffered writer of run is the variable stdout: a sequence of output *)
(* lines, each a sequence of chunks, one chunk per write! call.  A chunk   *)
(* is a record [painted, fg, text]: text is what is visible, and when      *)
(* painted, fg is the foreground colour ansi_term paints the token with.   *)
(* print! goes to the process's standard output directly and is the        *)
(* variable printed.                                                       *)
(*                                                                         *)
(* Scope: reads and writes succeed (no I/O error), and run is called with  *)
(* an INPUTFILE, no func argument and no v occurrence.                     *)
(***************************************************************************)
EXTENDS Integers, Sequences, FiniteSets

\* ------------------------------------------------------------ bounds
\* Longest source, in bytes.
MaxLen == 6
\* Largest column width given on the command line.
MaxCols == 3

\* ------------------------------------------------------------ inputs
\* <u16>::max_value(), the array size ceiling of buf_to_array.
max_array_size == 65535

\* Byte values the sources are built from: both sides of the two sidebar
\* boundaries, the colour remap value 0, the values of the unit tests.
SampleBytes == <<0, 6, 31, 32, 65, 126, 127, 255>>

\* The source of n bytes that starts at SampleBytes[seed] and walks on cyclically.
SourceOf(seed, n) ==
    [k \in 1..n |-> SampleBytes[((seed + k - 2) % Len(SampleBytes)) + 1]]

Sources == { SourceOf(seed, n) : seed \in 1..Len(SampleBytes), n \in 0..MaxLen }

\* The two-byte sources that between them hold every byte value in both places.
Sweep == { << b, (b + 128) % 256 >> : b \in 0..255 }

\* Requested lengths: none, short of, equal to and beyond the source, and the
\* value of max_array_size.
Lengths == (0..(MaxLen + 1)) \cup {max_array_size}

\* enum Format
Format == {"Octal", "LowerHex", "UpperHex", "Pointer", "Binary",
           "LowerExp", "UpperExp", "Unknown"}

\* matches.value_of("array"): absent ("none") or the syntax letter.
\* "other" stands for any letter run has no arm for.
ArrayFormats == {"none", "r", "c", "g", "other"}

\* The array branch reads neither format_out nor colorize: there they keep the
\* values run gives them when no format and no color is given.
FormatsOf(array) == IF array = "none" THEN Format ELSE {"LowerHex"}
ColorsOf(array) == IF array = "none" THEN BOOLEAN ELSE {TRUE}

\* Arguments of offset in the unit of the codec: the smallest and the largest
\* value of every number of hex digits up to 6, and the first value of 7 digits.
OffsetSample == {0, 6, 15, 16, 255, 256, 4095, 4096, 65535, 65536,
                 1048575, 1048576, 16777215, 16777216}

\* ------------------------------------------------------------ text
\* One digit as a character, lowercase or uppercase for digits above 9.
DigitChar(d, upper) ==
    IF d < 10 THEN 48 + d ELSE IF upper THEN 55 + d ELSE 87 + d

RECURSIVE ToDigits(_, _, _)
\* The digits of v in the base, most significant first, at least one.
ToDigits(v, base, upper) ==
    IF v < base
    THEN << DigitChar(v, upper) >>
    ELSE Append(ToDigits(v \div base, base, upper), DigitChar(v % base, upper))

\* format!("{:#0Wr}", v): the prefix, then the digits zero-padded so that the
\* whole is at least `width` characters; longer numbers are not cut.
FormatAlt(prefix, v, base, upper, width) ==
    LET digits == ToDigits(v, base, upper)
        fill == width - Len(prefix) - Len(digits)
    IN  prefix \o [k \in 1..fill |-> 48] \o digits

\* format!("{}", v) of an unsigned integer.
Display(v) == ToDigits(v, 10, FALSE)

\* format!("{:#08x}", b)
offset(b) == FormatAlt(<<48, 120>>, b, 16, FALSE, 8)

\* format!("{:#05o}", b): one digit short.
hex_octal_narrow(b) == FormatAlt(<<48, 111>>, b, 8, FALSE, 5)

\* format!("{:#06o}", b)
hex_octal(b) == FormatAlt(<<48, 111>>, b, 8, FALSE, 6)

\* format!("{:#04x}", b)
hex_lower_hex(b) == FormatAlt(<<48, 120>>, b, 16, FALSE, 4)

\* format!("{:#04X}", b)
hex_upper_hex(b) == FormatAlt(<<48, 120>>, b, 16, TRUE, 4)

\* format!("{:#010b}", b)
hex_binary(b) == FormatAlt(<<48, 98>>, b, 2, FALSE, 10)

\* A write! of plain text.
Plain(text) == [painted |-> FALSE, fg |-> 0, text |-> text]

\* The token of b in the format, with its trailing space: "unk_fmt " for the
\* formats print_byte has no arm for.
Token(b, format) ==
    CASE format = "Octal"    -> hex_octal(b) \o <<32>>
      [] format = "LowerHex" -> hex_lower_hex(b) \o <<32>>
      [] format = "UpperHex" -> hex_upper_hex(b) \o <<32>>
      [] format = "Binary"   -> hex_binary(b) \o <<32>>
      [] OTHER               -> <<117, 110, 107, 95, 102, 109, 116, 32>>

\* print_byte: the chunk written for b. Colour 0 is remapped to 0x16; the
\* unknown formats are never painted.
print_byte(b, format, colour) ==
    LET color == IF b < 1 THEN 22 ELSE b
        known == format \in {"Octal", "LowerHex", "UpperHex", "Binary"}
    IN  [painted |-> colour /\ known,
         fg |-> IF colour /\ known THEN color ELSE 0,
         text |-> Token(b, format)]

\* print_offset: what print! receives.
print_offset(b) == offset(b) \o <<58, 32>>

\* The sidebar test with *hex >= 31 for *hex > 31.
ascii_char_from_31(b) == IF b >= 31 /\ b < 127 THEN b ELSE 46

\* The sidebar character of a byte: itself when printable, '.' otherwise.
ascii_char(b) == IF b > 31 /\ b < 127 THEN b ELSE 46

\* ------------------------------------------------------------ state
VARIABLES
    source,         \* the bytes of INPUTFILE
    buf_len,        \* the requested length (the file size when no len is given)
    column_width,   \* cols
    format_out,     \* format
    colorize,       \* color
    array_format,   \* array
    pc,             \* where run is
    pos,            \* bytes taken from buf.bytes() so far
    page,           \* buf_to_array: page
    line,           \* buf_to_array: line
    column_count,   \* buf_to_array: column_count
    row,            \* lines of page.body rendered so far
    i,              \* run, array branch: i
    offset_counter, \* run, dump branch: offset_counter
    byte_column,    \* run, dump branch: byte_column
    ascii_line,     \* run, dump branch: ascii_line
    stdout,         \* what was written to the buffered writer
    printed,        \* what was printed with print!
    arg,            \* mod tests: the values the helpers are called with
    ret             \* mod tests: what the helpers returned

inputs == << source, buf_len, column_width, format_out, colorize, array_format >>
paging == << pos, page, line, column_count >>
rendering == << row, i, offset_counter, byte_column, ascii_line, stdout, printed >>
tests == << arg, ret >>
vars == << inputs, pc, paging, rendering, tests >>

\* Line::new()
LineNew == [offset |-> 0, hex_body |-> << >>, ascii |-> << >>, bytes |-> 0]

\* Page::new()
PageNew == [offset |-> 0, body |-> << >>, bytes |-> 0]

\* The runs of the model: every sampled source with every requested length and
\* column width, and every source of the sweep with the length run reads from
\* the file's metadata.
Init ==
    /\ \/ /\ source \in Sources
          /\ buf_len \in Lengths
       \/ /\ source \in Sweep
          /\ buf_len = Len(source)
    /\ column_width \in 0..MaxCols
    /\ array_format \in ArrayFormats
    /\ format_out \in FormatsOf(array_format)
    /\ colorize \in ColorsOf(array_format)
    /\ pc = "buf_to_array"
    /\ pos = 0
    /\ page = PageNew
    /\ line = LineNew
    /\ column_count = 0
    /\ row = 0
    /\ i = 0
    /\ offset_counter = 0
    /\ byte_column = 0
    /\ ascii_line = LineNew
    /\ stdout = << >>
    /\ printed = << >>
    /\ arg = [b |-> 0, v |-> 0]
    /\ ret = [called |-> FALSE]

\* ------------------------------------------------------------ buf_to_array
\* The line test with column_count == column_width.
RowFullExactly(count, width) == count = width

\* column_count >= column_width: the line is full.
RowFull(count, width) == count >= width

\* page.bytes == buf_len || max_array_size as u64 == buf_len: the loop breaks.
Stop(bytes, len) == bytes = len \/ max_array_size = len

\* The branch run takes with the page buf_to_array returns.
Branch == IF array_format # "none" THEN "array_header" ELSE "dump_body"

\* One iteration of  for b in buf.bytes(): the byte joins the line, a full line
\* joins the page, and on the stop condition the line (whatever it holds) joins
\* the page and the function returns.
ReadByte ==
    /\ pc = "buf_to_array"
    /\ pos < Len(source)
    /\ LET b1 == source[pos + 1]
           line1 == [line EXCEPT !.bytes = @ + 1, !.hex_body = Append(@, b1)]
           bytes1 == page.bytes + 1
           count1 == column_count + 1
           full == RowFull(count1, column_width)
           body2 == IF full THEN Append(page.body, line1) ELSE page.body
           line2 == IF full THEN LineNew ELSE line1
           count2 == IF full THEN 0 ELSE count1
           stop == Stop(bytes1, buf_len)
       IN  /\ pos' = pos + 1
           /\ page' = [page EXCEPT !.bytes = bytes1,
                                   !.body = IF stop THEN Append(body2, line2) ELSE body2]
           /\ line' = line2
           /\ column_count' = count2
           /\ pc' = IF stop THEN Branch ELSE pc
    /\ UNCHANGED << inputs, rendering, tests >>

\* buf.bytes() yields None: the loop ends and Ok(page) is returned; the line
\* in progress is dropped.
EndOfSource ==
    /\ pc = "buf_to_array"
    /\ pos = Len(source)
    /\ pc' = Branch
    /\ UNCHANGED << inputs, paging, rendering, tests >>

\* ------------------------------------------------------------ run, array branch
\* The header line of the array literal, sized with page.bytes.
ArrayHeaderText(fmt, bytes) ==
    CASE fmt = "r" -> <<108, 101, 116, 32, 65, 82, 82, 65, 89, 58, 32, 91, 117, 56, 59, 32>>
                      \o Display(bytes) \o <<93, 32, 61, 32, 91>>
      [] fmt = "c" -> <<117, 110, 115, 105, 103, 110, 101, 100, 32, 99, 104, 97, 114, 32,
                        65, 82, 82, 65, 89, 91>>
                      \o Display(bytes) \o <<93, 32, 61, 32, 123>>
      [] fmt = "g" -> <<97, 32, 58, 61, 32, 91>> \o Display(bytes) \o <<93, 98, 121, 116, 101, 123>>
      [] OTHER     -> <<117, 110, 107, 110, 111, 119, 110, 32, 97, 114, 114, 97, 121, 32,
                        102, 111, 114, 109, 97, 116>>

\* The closing line of the array literal.
ArrayFooterText(fmt) ==
    CASE fmt = "r" -> <<93, 59>>
      [] fmt = "c" -> <<125, 59>>
      [] fmt = "g" -> <<125>>
      [] OTHER     -> <<117, 110, 107, 110, 111, 119, 110, 32, 97, 114, 114, 97, 121, 32,
                        102, 111, 114, 109, 97, 116>>

\* i == buf_len && array_format != "g": the byte is written without ", ".
IsLast(count, len, fmt) == count = len /\ fmt # "g"

\* The chunk of one byte of the array body, count being i after its increment.
ArrayToken(hex, count, len, fmt) ==
    IF IsLast(count, len, fmt)
    THEN Plain(hex_lower_hex(hex))
    ELSE Plain(hex_lower_hex(hex) \o <<44, 32>>)

ArrayHeader ==
    /\ pc = "array_header"
    /\ stdout' = Append(stdout, << Plain(ArrayHeaderText(array_format, page.bytes)) >>)
    /\ i' = 0
    /\ pc' = "array_body"
    /\ UNCHANGED << inputs, paging, row, offset_counter, byte_column, ascii_line,
                    printed, tests >>

\* One iteration of  for line in page.body.iter()  of the array branch.
ArrayLine ==
    /\ pc = "array_body"
    /\ row < Len(page.body)
    /\ LET body == page.body[row + 1].hex_body
           tokens == [k \in 1..Len(body) |->
                         ArrayToken(body[k], i + k, buf_len, array_format)]
       IN  /\ stdout' = Append(stdout, << Plain(<<32, 32, 32, 32>>) >> \o tokens)
           /\ i' = i + Len(body)
    /\ row' = row + 1
    /\ UNCHANGED << inputs, pc, paging, offset_counter, byte_column, ascii_line,
                    printed, tests >>

ArrayFooter ==
    /\ pc = "array_body"
    /\ row = Len(page.body)
    /\ stdout' = Append(stdout, << Plain(ArrayFooterText(array_format)) >>)
    /\ pc' = "done"
    /\ UNCHANGED << inputs, paging, row, i, offset_counter, byte_column, ascii_line,
                    printed, tests >>

\* ------------------------------------------------------------ run, dump branch
\* write!("{:<1$}", "", 5 * (column_width - byte_column)): the padding of a
\* line of `column` bytes, written only when column < width.
Padding(column, width) ==
    IF column < width
    THEN << Plain([k \in 1..(5 * (width - column)) |-> 32]) >>
    ELSE << >>

\* ascii_line = Line::new() after a line is written.
AsciiReset(l) == LineNew

\* One iteration of  for line in page.body.iter()  of the dump branch: the
\* offset is printed, every byte is written as its token and pushed on the
\* sidebar, a short line is padded, the sidebar is written and reset.
DumpLine ==
    /\ pc = "dump_body"
    /\ row < Len(page.body)
    /\ LET body == page.body[row + 1].hex_body
           tokens == [k \in 1..Len(body) |-> print_byte(body[k], format_out, colorize)]
           column == byte_column + Len(body)
           ascii == ascii_line.ascii \o [k \in 1..Len(body) |-> ascii_char(body[k])]
           filled == [ascii_line EXCEPT !.ascii = ascii]
       IN  /\ printed' = Append(printed, print_offset(offset_counter))
           /\ offset_counter' = offset_counter + Len(body)
           /\ byte_column' = 0
           /\ ascii_line' = AsciiReset(filled)
           /\ stdout' = Append(stdout,
                               tokens \o Padding(column, column_width) \o << Plain(ascii) >>)
    /\ row' = row + 1
    /\ UNCHANGED << inputs, pc, paging, i, tests >>

\* writeln!("   bytes: {}", page.bytes) after the last line.
DumpSummary ==
    /\ pc = "dump_body"
    /\ row = Len(page.body)
    /\ stdout' = Append(stdout,
                        << Plain(<<32, 32, 32, 98, 121, 116, 101, 115, 58, 32>>
                                 \o Display(page.bytes)) >>)
    /\ pc' = "done"
    /\ UNCHANGED << inputs, paging, row, i, offset_counter, byte_column, ascii_line,
                    printed, tests >>

Next ==
    \/ ReadByte
    \/ EndOfSource
    \/ ArrayHeader
    \/ ArrayLine
    \/ ArrayFooter
    \/ DumpLine
    \/ DumpSummary

Spec == Init /\ [][Next]_vars

\* run is single-threaded and synchronous: a step that can be taken is taken.
FairSpec == Spec /\ WF_vars(Next)

\* ------------------------------------------------------------ mod tests
\* The unit of the codec: the helpers are called on a byte and an offset.
InitCodec ==
    /\ source = << >>
    /\ buf_len = 0
    /\ column_width = 0
    /\ format_out = "LowerHex"
    /\ colorize = FALSE
    /\ array_format = "none"
    /\ pc = "tests"
    /\ pos = 0
    /\ page = PageNew
    /\ line = LineNew
    /\ column_count = 0
    /\ row = 0
    /\ i = 0
    /\ offset_counter = 0
    /\ byte_column = 0
    /\ ascii_line = LineNew
    /\ stdout = << >>
    /\ printed = << >>
    /\ arg \in [b : 0..255, v : OffsetSample]
    /\ ret = [called |-> FALSE]

CallHelpers ==
    /\ pc = "tests"
    /\ ret' = [called |-> TRUE,
               offset |-> offset(arg.v),
               hex_octal |-> hex_octal(arg.b),
               hex_lower_hex |-> hex_lower_hex(arg.b),
               hex_upper_hex |-> hex_upper_hex(arg.b),
               hex_binary |-> hex_binary(arg.b)]
    /\ pc' = "done"
    /\ UNCHANGED << inputs, paging, rendering, arg >>

NextCodec == CallHelpers

SpecCodec == InitCodec /\ [][NextCodec]_vars

\* ------------------------------------------------------------ properties
\* buf_to_array has returned its page.
Returned == pc \notin {"buf_to_array", "tests"}

Min(a, b) == IF a < b THEN a ELSE b

\* ceil(n / w), for w >= 1
Ceil(n, w) == (n + w - 1) \div w

RECURSIVE Flatten(_)
\* The bytes of the lines, in order.
Flatten(body) ==
    IF body = << >> THEN << >> ELSE body[1].hex_body \o Flatten(Tail(body))

\* The first n bytes of the source.
Prefix(n) == SubSeq(source, 1, n)

RECURSIVE Value(_, _)
\* The number a sequence of digit characters denotes in the base (-1 when a
\* character is no digit of the base); letters of either case are digits.
Value(digits, base) ==
    IF digits = << >> THEN 0
    ELSE LET c == digits[Len(digits)]
             d == IF c >= 48 /\ c <= 57 THEN c - 48
                  ELSE IF c >= 97 /\ c <= 102 THEN c - 87
                  ELSE IF c >= 65 /\ c <= 70 THEN c - 55
                  ELSE base
             rest == Value(SubSeq(digits, 1, Len(digits) - 1), base)
         IN  IF d >= base \/ rest < 0 THEN -1 ELSE rest * base + d

\* Characters that are no uppercase letters / no lowercase letters.
NoUpper(text) == \A k \in 1..Len(text) : ~(text[k] >= 65 /\ text[k] <= 90)
NoLower(text) == \A k \in 1..Len(text) : ~(text[k] >= 97 /\ text[k] <= 122)

\* A token: the two characters of the prefix, then exactly `digits` digits of
\* the base whose value is v.
IsToken(text, mark, base, digits, v) ==
    /\ Len(text) = 2 + digits
    /\ text[1] = 48
    /\ text[2] = mark
    /\ Value(SubSeq(text, 3, Len(text)), base) = v

\* The visible width of the chunks k..m of an output line.
RECURSIVE Width(_, _, _)
Width(chunks, k, m) ==
    IF k > m THEN 0 ELSE Len(chunks[k].text) + Width(chunks, k + 1, m)

\* The visible column at which the sidebar (the last chunk) of an output line starts.
SidebarColumn(chunks) == Width(chunks, 1, Len(chunks) - 1)

\* C1: the page buf_to_array returns holds min(requested length, source
\* length, 65535) bytes, for every column width >= 1.
C1_TotalBytes ==
    (Returned /\ column_width >= 1)
        => page.bytes = Min(Min(buf_len, Len(source)), max_array_size)

\* C2: with the requested length equal to the source's length n <= 65535 and
\* a column width >= 1, the page has exactly ceil(n / column_width) lines.
C2_RowCount ==
    (Returned /\ column_width >= 1 /\ buf_len = Len(source))
        => Len(page.body) = Ceil(Len(source), column_width)

\* C3: with a column width >= 1, every line of the returned page but the last
\* holds exactly column_width bytes, the last holds 1..column_width bytes (no
\* empty line is appended), and an empty source gives no line.
C3_RowShape ==
    (Returned /\ column_width >= 1)
        => /\ \A r \in 1..Len(page.body) :
                LET n == Len(page.body[r].hex_body)
                IN  /\ n = page.body[r].bytes
                    /\ r < Len(page.body) => n = column_width
                    /\ r = Len(page.body) => (n >= 1 /\ n <= column_width)
           /\ Len(source) = 0 => page.body = << >>

\* C4: when the requested length is greater than the source's length, the
\* line in progress at the end of the source is appended: the lines of the
\* returned page, in order, are the first page.bytes bytes of the source.
C4_ExhaustedSource ==
    (Returned /\ column_width >= 1 /\ buf_len > Len(source))
        => /\ Len(Flatten(page.body)) = page.bytes
           /\ page.bytes <= Len(source)
           /\ Flatten(page.body) = Prefix(page.bytes)

\* C5: with a requested length of 0 and a column width >= 1, no byte of the
\* source is read and the returned page is empty (no line, bytes = 0).
C5_ZeroLength ==
    (buf_len = 0 /\ column_width >= 1)
        => /\ pos = 0
           /\ Returned => (page.body = << >> /\ page.bytes = 0)

\* C6: every helper returns a fixed-width zero-padded token whose digits are
\* the value in its base: 0o + 4 octal digits, 0x + 2 lowercase hex digits,
\* 0x + 2 uppercase hex digits, 0b + 8 binary digits, and for an offset below
\* 2^24, 0x + 6 lowercase hex digits.
C6_Codec ==
    ret.called
        => /\ IsToken(ret.hex_octal, 111, 8, 4, arg.b)
           /\ IsToken(ret.hex_lower_hex, 120, 16, 2, arg.b)
           /\ NoUpper(ret.hex_lower_hex)
           /\ IsToken(ret.hex_upper_hex, 120, 16, 2, arg.b)
           /\ NoLower(SubSeq(ret.hex_upper_hex, 3, 4))
           /\ IsToken(ret.hex_binary, 98, 2, 8, arg.b)
           /\ arg.v < 16777216
                => (IsToken(ret.offset, 120, 16, 6, arg.v) /\ NoUpper(ret.offset))
           /\ arg.b = 6 => ret.hex_octal = <<48, 111, 48, 48, 48, 54>>
           /\ arg.b = 255
                => /\ ret.hex_lower_hex = <<48, 120, 102, 102>>
                   /\ ret.hex_upper_hex = <<48, 120, 70, 70>>
                   /\ ret.hex_binary = <<48, 98, 49, 49, 49, 49, 49, 49, 49, 49>>
           /\ arg.v = 6 => ret.offset = <<48, 120, 48, 48, 48, 48, 48, 54>>

\* C6 happens: the helpers were called on 255 and on the offset 6, and on the
\* largest offset of 6 digits.
C6_Witness ==
    /\ ret.called
    /\ arg.b = 255
    /\ arg.v \in {6, 16777215}
    /\ ret.hex_lower_hex = <<48, 120, 102, 102>>

\* The dump lines written so far: stdout[r] renders page.body[r].
DumpRows == IF array_format = "none" /\ Returned THEN 1..row ELSE {}

\* C7: in the dump view the sidebar of every line has one character per byte
\* of the line, the byte's own character iff 31 < byte < 127 and '.' otherwise.
C7_Sidebar ==
    \A r \in DumpRows :
        LET body == page.body[r].hex_body
            side == stdout[r][Len(stdout[r])].text
        IN  /\ Len(side) = Len(body)
            /\ \A k \in 1..Len(body) :
                  /\ (side[k] = body[k]) <=> (body[k] > 31 /\ body[k] < 127)
                  /\ ~(body[k] > 31 /\ body[k] < 127) => side[k] = 46

\* C7 happens: a dump of two lines or more is complete, a later line holds
\* both 126 (rendered as itself) and 127 (rendered as '.'), and the boundary
\* values 31, 32, 126 and 127 were all rendered.
C7_Witness ==
    /\ pc = "done"
    /\ array_format = "none"
    /\ row >= 2
    /\ \E r \in 2..row :
          LET side == stdout[r][Len(stdout[r])].text
              body == page.body[r].hex_body
          IN  \E k, m \in 1..Len(side) :
                 body[k] = 127 /\ side[k] = 46 /\ body[m] = 126 /\ side[m] = 126
    /\ {31, 32, 126, 127} \subseteq { source[k] : k \in 1..pos }
    /\ source \in Sources
    /\ Len(Flatten(page.body)) = pos

\* C8: in the dump view a line of fewer bytes than column_width is padded
\* with five spaces per missing column, and the sidebar of every line starts
\* at the same visible column, for every format and column width >= 1.
C8_Aligned ==
    (column_width >= 1)
        => \A r \in DumpRows :
              LET body == page.body[r].hex_body
                  chunks == stdout[r]
                  short == Len(body) < column_width
              IN  /\ Len(chunks) = Len(body) + (IF short THEN 2 ELSE 1)
                  /\ short => chunks[Len(body) + 1].text
                                = [k \in 1..(5 * (column_width - Len(body))) |-> 32]
                  /\ SidebarColumn(chunks) = SidebarColumn(stdout[1])

\* The byte chunks of the array body written so far, in order (the first
\* chunk of a body line is its indentation).
RECURSIVE ArrayTokens(_)
ArrayTokens(r) ==
    IF r = 0 THEN << >>
    ELSE ArrayTokens(r - 1) \o SubSeq(stdout[r + 1], 2, Len(stdout[r + 1]))

\* C9: in array mode the number of byte tokens written equals the size in the
\* header (page.bytes); every token is followed by ", " except the last of
\* the whole array, which has none for r and c and keeps it for g.
C9_ArrayCommas ==
    (pc = "done" /\ array_format \in {"r", "c", "g"})
        => LET tokens == ArrayTokens(row)
           IN  /\ Len(tokens) = page.bytes
               /\ stdout[1][1].text = ArrayHeaderText(array_format, Len(tokens))
               /\ \A k \in 1..Len(tokens) :
                     IF k = Len(tokens) /\ array_format # "g"
                     THEN Len(tokens[k].text) = 4
                     ELSE /\ Len(tokens[k].text) = 6
                          /\ SubSeq(tokens[k].text, 5, 6) = <<44, 32>>

\* C10: for every column width, 0 included, buf_to_array returns, having
\* taken no more bytes than the source holds; with a column width of 0 every
\* byte read is a line of its own.
C10_Terminates ==
    /\ <>Returned
    /\ [](pos <= Len(source) /\ page.bytes = pos)
    /\ []((Returned /\ column_width = 0)
            => /\ Flatten(page.body) = Prefix(pos)
               /\ \A r \in 1..pos : page.body[r].hex_body = << source[r] >>)

\* C10 happens: buf_to_array has returned with a column width of 0 after
\* reading the whole of a source of several bytes.
C10_Witness ==
    /\ Returned
    /\ pc # "done"
    /\ column_width = 0
    /\ pos = Len(source)
    /\ pos >= 2
    /\ Len(page.body) >= pos
====
